---- MODULE Spec2Model ----
(***************************************************************************)
(* Receding-horizon controller for a unicycle robot with obstacle          *)
(* avoidance (MPC-DC / MPC-CBF): src/mpc_cbf.py and the legacy variant     *)
(* src/mpc-cbf.py.                                                         *)
(*                                                                         *)
(* Arithmetic.  Headings are counted in quarter turns, so cos and sin take *)
(* their exact values in {-1, 0, 1}; angular velocities are quarter turns  *)
(* per time unit.  The regularisation constant a = 1e-9 of                 *)
(* get_sys_matrix_B is kept symbolically: a quantity is a polynomial       *)
(*      c0 + c1*e + c2*e^2        with  e = a * (pi/2)                     *)
(* and integer coefficients, written <<c0, c1, c2>>.  Coordinates have     *)
(* degree <= 1, the barrier h (a sum of squares of coordinates) degree     *)
(* <= 2.  Since e < 2e-9 and every coefficient of the model stays far      *)
(* below 1e8, the sign of such a polynomial is the sign of its first       *)
(* non-zero coefficient (PSign).                                           *)
(***************************************************************************)
EXTENDS Integers, Sequences, FiniteSets, TLC

VARIABLES
    config,      \* the configuration module read by MPC.__init__
    pc,          \* "new", "ready", "ctor_error", "solve", "simulate",
                 \* "estimate", "done", "error"
    nl_cons,     \* constraints registered with mpc.set_nl_cons (ub = 0)
    bounds,      \* mpc.bounds: [lower |-> <<v, w>>, upper |-> <<v, w>>]
    tvp_set,     \* mpc.set_tvp_fun was called
    t_now,       \* the controller's clock (mpc.t0), handed to tvp_fun_mpc
    tvp,         \* tvp_struct_mpc['_tvp']: the set-point of each horizon step
    mpc_x0,      \* self.mpc.x0
    sim_x0,      \* self.simulator.x0 (the simulator's own state)
    est_x0,      \* self.estimator.x0
    x0,          \* local x0 of run_simulation
    u0,          \* local u0 of run_simulation
    y_next,      \* local y_next of run_simulation
    k,           \* loop index of run_simulation
    solve_x,     \* state the last solve was given
    sim_u,       \* input the last simulator step was given
    cons_val,    \* values of the registered expressions at (x0, u0) of the last solve
    failed,      \* some solve of this run failed (the solver status, never read)
    nSolve, nSim, nEst   \* history: completed calls of each stage

vars == <<config, pc, nl_cons, bounds, tvp_set, t_now, tvp, mpc_x0, sim_x0, est_x0, x0, u0,
          y_next, k, solve_x, sim_u, cons_val, failed, nSolve, nSim, nEst>>

---------------------------------------------------------------------------
(* Bounds of the model *)

MaxSimTime == 2
MaxHorizon == 2

---------------------------------------------------------------------------
(* Polynomials in e *)

PConst(n) == <<n, 0, 0>>
PAdd(p, q) == <<p[1] + q[1], p[2] + q[2], p[3] + q[3]>>
PScale(n, p) == <<n * p[1], n * p[2], n * p[3]>>
PNeg(p) == PScale(-1, p)
PSub(p, q) == PAdd(p, PNeg(q))
\* product of two polynomials of degree <= 1
PMul(p, q) == <<p[1] * q[1], p[1] * q[2] + p[2] * q[1], p[2] * q[2]>>
PSq(p) == PMul(p, p)
Sgn(n) == IF n > 0 THEN 1 ELSE IF n < 0 THEN -1 ELSE 0
PSign(p) == IF p[1] # 0 THEN Sgn(p[1]) ELSE IF p[2] # 0 THEN Sgn(p[2]) ELSE Sgn(p[3])
PLeq0(p) == PSign(p) <= 0
PGeq0(p) == PSign(p) >= 0
PGeq(p, q) == PGeq0(PSub(p, q))

\* cos and sin of th quarter turns
cos(th) == CASE th % 4 = 0 -> 1 [] th % 4 = 1 -> 0 [] th % 4 = 2 -> -1 [] OTHER -> 0
sin(th) == CASE th % 4 = 0 -> 0 [] th % 4 = 1 -> 1 [] th % 4 = 2 -> 0 [] OTHER -> -1

\* the state vector (x, y, theta) as three polynomials
State(px, py, th) == <<PConst(px), PConst(py), PConst(th)>>
Theta(x) == x[3][1]

---------------------------------------------------------------------------
(* The configuration: the values MPC.__init__ reads from config *)

Programs == {"mpc_cbf", "mpc-cbf"}
Controllers == {"MPC-DC", "MPC-CBF"}
\* gamma as a fraction <<numerator, denominator>>: 0, 1/2, 1, 3/2
Gammas == {<<0, 1>>, <<1, 2>>, <<1, 1>>, <<3, 2>>}
\* obstacle lists, each a sequence of (x_obs, y_obs, r_obs)
ObsLists == {<< >>, << <<3, 0, 1>> >>, << <<3, 0, 1>>, <<0, 3, 1>> >>}
\* initial poses: clear of every obstacle, on the rim of the first inflated
\* disk, inside it
X0s == {State(0, 0, 0), State(1, 0, 0), State(2, 0, 0)}
\* <<obstacle list, initial pose>> of the closed-loop runs
Scenes == ObsLists \X X0s

Config(program, controller, obstacles_on, obs, gamma, x, control_type, trajectory, T_horizon, sim_time) ==
    [program |-> program, controller |-> controller, obstacles_on |-> obstacles_on,
     obs |-> obs, r |-> 1, gamma |-> gamma, x0 |-> x, control_type |-> control_type,
     trajectory |-> trajectory, T_horizon |-> T_horizon, sim_time |-> sim_time,
     Ts |-> 1, v_limit |-> 1, omega_limit |-> 1, A |-> 2, w |-> 1]

\* closed-loop runs of src/mpc_cbf.py with obstacles
LoopConfigs ==
    {Config("mpc_cbf", "MPC-CBF", TRUE, s[1], g, s[2], "setpoint", "circular", n, t) :
        s \in Scenes, g \in Gammas, n \in 1..MaxHorizon, t \in 0..MaxSimTime}
    \cup
    {Config("mpc_cbf", "MPC-DC", TRUE, s[1], <<1, 2>>, s[2], "setpoint", "circular", n, t) :
        s \in Scenes, n \in 1..MaxHorizon, t \in 0..MaxSimTime}

\* assembly variants: either program, obstacles on or off, every control
\* type and trajectory name
AssemblyConfigs ==
    {Config(p, c, on, o, <<1, 2>>, State(0, 0, 0), ct, tr, 1, 1) :
        p \in Programs, c \in Controllers, on \in BOOLEAN, o \in ObsLists,
        ct \in {"setpoint", "traj_tracking"},
        tr \in {"circular", "lemniscate", "square"}}

\* closed-loop runs in trajectory-tracking mode, one obstacle
TrackingConfigs ==
    {Config(p, "MPC-CBF", TRUE, << <<3, 0, 1>> >>, <<1, 2>>, State(0, 0, 0), "traj_tracking", tr, n, t) :
        p \in Programs, tr \in {"circular", "lemniscate", "square"},
        n \in 1..MaxHorizon, t \in 0..MaxSimTime}

Configs == LoopConfigs \cup AssemblyConfigs \cup TrackingConfigs

---------------------------------------------------------------------------
(* Model, barrier and constraint expressions *)

\* B[0,0] = cos, B[0,1] = -a sin, B[1,0] = sin, B[1,1] = a cos, B[2,1] = 1;
\* column 2 multiplies omega, whose unit (pi/2) is folded into e
get_sys_matrix_B(x) ==
    << <<PConst(cos(Theta(x))), <<0, -sin(Theta(x)), 0>> >>,
       <<PConst(sin(Theta(x))), <<0, cos(Theta(x)), 0>> >>,
       <<PConst(0), PConst(1)>> >>

\* x + B@u*Ts
StepWith(B, x, u, Ts) ==
    [i \in 1..3 |-> PAdd(x[i], PScale(Ts, PAdd(PScale(u[1], B[i][1]),
                                                 PScale(u[2], B[i][2]))))]

\* define_model: x_next = _x + B@_u*self.Ts
x_next(x, u) == StepWith(get_sys_matrix_B(x), x, u, config.Ts)

\* get_cbf_constraints / define_mpc (legacy): x_k1
x_k1(x, u) == StepWith(get_sys_matrix_B(x), x, u, config.Ts)

\* faulty variant: the robot radius is left out of the margin
h_no_robot_radius(x, obstacle) ==
    PSub(PAdd(PSq(PSub(x[1], PConst(obstacle[1]))),
              PSq(PSub(x[2], PConst(obstacle[2])))),
         PConst(obstacle[3] * obstacle[3]))

\* h = (x[0] - x_obs)**2 + (x[1] - y_obs)**2 - (self.r + r_obs)**2
h(x, obstacle) ==
    PSub(PAdd(PSq(PSub(x[1], PConst(obstacle[1]))),
              PSq(PSub(x[2], PConst(obstacle[2])))),
         PConst((config.r + obstacle[3]) * (config.r + obstacle[3])))

\* tvp_fun_mpc: the point (x_traj, y_traj) of the trajectory at time t, with
\* config.w in quarter turns per time unit; every name but "circular" takes
\* the else branch (the two quotients are exact at whole quarter turns)
Trajectory(t) ==
    IF config.trajectory = "circular"
    THEN <<config.A * cos(config.w * t), config.A * sin(config.w * t)>>
    ELSE <<(config.A * cos(config.w * t))
               \div (sin(config.w * t) * sin(config.w * t) + 1),
           (config.A * sin(config.w * t) * cos(config.w * t))
               \div (sin(config.w * t) * sin(config.w * t) + 1)>>

\* add_obstacle_constraints: obs_avoid
obs_avoid(x, obstacle) ==
    PAdd(PSub(PNeg(PSq(PSub(x[1], PConst(obstacle[1])))),
              PSq(PSub(x[2], PConst(obstacle[2])))),
         PConst((config.r + obstacle[3]) * (config.r + obstacle[3])))

\* faulty variant: h_k and h_k1 swapped
cbc_swapped(x, u, obstacle) ==
    PAdd(PScale(-config.gamma[2], h(x, obstacle)),
         PScale(config.gamma[2] - config.gamma[1], h(x_k1(x, u), obstacle)))

\* -h_k1 + (1-self.gamma)*h_k, multiplied by gamma's denominator d > 0, which
\* keeps its sign: -d*h_k1 + (d - n)*h_k
cbc(x, u, obstacle) ==
    PAdd(PScale(-config.gamma[2], h(x_k1(x, u), obstacle)),
         PScale(config.gamma[2] - config.gamma[1], h(x, obstacle)))

\* the value of a registered constraint expression at (x, u)
ConsExpr(c, x, u) ==
    IF c.name = "obstacle_constraint" THEN obs_avoid(x, c.obs) ELSE cbc(x, u, c.obs)

---------------------------------------------------------------------------
(* MPC.__init__ *)

\* a field not yet assigned
None == << >>

\* faulty variant: no reversing, the lower bound of v is 0
InputBounds_forward_only ==
    [lower |-> <<0, -config.omega_limit>>,
     upper |-> <<config.v_limit, config.omega_limit>>]

\* max_u = [v_limit, omega_limit]; bounds lower = -max_u, upper = max_u
max_u == <<config.v_limit, config.omega_limit>>
InputBounds == [lower |-> <<-max_u[1], -max_u[2]>>, upper |-> max_u]

\* add_obstacle_constraints: 'obstacle_constraint'+str(i) for each obstacle
add_obstacle_constraints ==
    [i \in 1..Len(config.obs) |->
        [name |-> "obstacle_constraint", idx |-> i - 1, obs |-> config.obs[i]]]

\* faulty variant: only the first obstacle gets a CBF constraint
add_cbf_constraints_first_only ==
    [i \in 1..(IF Len(config.obs) > 0 THEN 1 ELSE 0) |->
        [name |-> "cbf_constraint", idx |-> i - 1, obs |-> config.obs[i]]]

\* add_cbf_constraints: 'cbf_constraint'+str(i) for each obstacle
add_cbf_constraints ==
    [i \in 1..Len(config.obs) |->
        [name |-> "cbf_constraint", idx |-> i - 1, obs |-> config.obs[i]]]

\* define_mpc of src/mpc_cbf.py: the safety constraints
SafetyConstraints ==
    IF config.obstacles_on
    THEN IF config.controller = "MPC-DC" THEN add_obstacle_constraints
                                          ELSE add_cbf_constraints
    ELSE << >>

\* define_mpc of src/mpc-cbf.py: one 'cbf_constraint' on self.obs[0], whatever
\* obstacles_on says
LegacyConstraints == << [name |-> "cbf_constraint", idx |-> None, obs |-> config.obs[1]] >>

\* self.obs and self.r exist only when obstacles_on (AttributeError otherwise);
\* self.obs[0] needs a non-empty list (IndexError otherwise)
LegacyAssemblyFails == ~config.obstacles_on \/ Len(config.obs) = 0

\* tvp_fun_mpc of src/mpc-cbf.py binds x_traj, y_traj only for "circular"
\* (UnboundLocalError otherwise); that of src/mpc_cbf.py takes every other
\* name for the lemniscate
TvpFunRaises ==
    /\ config.program = "mpc-cbf"
    /\ config.control_type = "traj_tracking"
    /\ config.trajectory # "circular"

\* faulty variant: the simulator is left at the origin
Seeded_sim_at_origin(ready) ==
    /\ pc' = IF ready THEN "ready" ELSE "ctor_error"
    /\ mpc_x0' = IF ready THEN config.x0 ELSE None
    /\ sim_x0' = IF ready THEN State(0, 0, 0) ELSE None
    /\ est_x0' = IF ready THEN config.x0 ELSE None

\* set_init_state (reached only when the assembly before it succeeded)
Seeded(ready) ==
    /\ pc' = IF ready THEN "ready" ELSE "ctor_error"
    /\ mpc_x0' = IF ready THEN config.x0 ELSE None
    /\ sim_x0' = IF ready THEN config.x0 ELSE None
    /\ est_x0' = IF ready THEN config.x0 ELSE None

\* MPC.__init__: define_model, define_mpc, define_simulator, StateFeedback,
\* set_init_state
Construct ==
    /\ pc = "new"
    /\ bounds' = InputBounds
    /\ IF config.program = "mpc_cbf"
       THEN /\ nl_cons' = SafetyConstraints
            /\ Seeded(TRUE)
       ELSE IF LegacyAssemblyFails
            THEN /\ nl_cons' = << >>
                 /\ Seeded(FALSE)
            ELSE /\ nl_cons' = LegacyConstraints
                 \* whether set_tvp_fun already calls the callback is the
                 \* library's choice
                 /\ \/ Seeded(TRUE)
                    \/ TvpFunRaises /\ Seeded(FALSE)
    /\ tvp_set' = (pc' = "ready" /\ config.control_type = "traj_tracking")
    /\ UNCHANGED <<config, t_now, tvp, x0, u0, y_next, k, solve_x, sim_u, cons_val,
                   failed, nSolve, nSim, nEst>>

---------------------------------------------------------------------------
(* MPC.run_simulation *)

\* the inputs inside the registered box
Inputs == (bounds.lower[1]..bounds.upper[1]) \X (bounds.lower[2]..bounds.upper[2])

\* the values of the registered expressions at the stage (x, u)
StageValues(x, u) == [i \in DOMAIN nl_cons |-> ConsExpr(nl_cons[i], x, u)]

\* every registered expression is <= 0 (ub=0) at the stage (x, u)
StageOk(x, u) == \A i \in DOMAIN nl_cons : PLeq0(StageValues(x, u)[i])

\* some plan u_0 = u, u_1, ..., u_{n-1} inside the box satisfies the registered
\* constraints at every stage (x_j, u_j), j = 0 .. n-1, of the prediction
\* x_0 = x, x_{j+1} = x_next(x_j, u_j)
RECURSIVE PlanExists(_, _, _)
PlanExists(x, u, n) ==
    /\ StageOk(x, u)
    /\ IF n = 1 THEN TRUE
                 ELSE \E v \in Inputs : PlanExists(x_next(x, u), v, n - 1)

\* the first inputs of the plans the solver can return from state x
FirstInputs(x) == {u \in Inputs : PlanExists(x, u, config.T_horizon)}

\* faulty variant: the loop stops one iteration early
in_range_short(kk) == kk < config.sim_time - 1

\* for k in range(self.sim_time): there is an iteration number kk
in_range(kk) == kk < config.sim_time

\* x0 = self.x0; the loop is entered unless range(self.sim_time) is empty
StartRun ==
    /\ pc = "ready"
    /\ x0' = config.x0
    /\ k' = 0
    /\ pc' = IF in_range(0) THEN "solve" ELSE "done"
    /\ UNCHANGED <<config, nl_cons, bounds, tvp_set, t_now, tvp, mpc_x0, sim_x0, est_x0, u0,
                   y_next, solve_x, sim_u, cons_val, failed, nSolve, nSim, nEst>>

\* faulty variant: the set-point is advanced along the horizon
tvp_fun_mpc_advanced(t) ==
    [j \in 1..(config.T_horizon + 1) |-> Trajectory(t + (j - 1) * config.Ts)]

\* tvp_fun_mpc: tvp_struct_mpc['_tvp', :, 'x_set_point'] = x_traj, and the same
\* for y: one set-point, evaluated at t_now, for every step of the template
tvp_fun_mpc(t) == [j \in 1..(config.T_horizon + 1) |-> Trajectory(t)]

\* u0 = self.mpc.make_step(x0).  In trajectory-tracking mode the controller
\* first fills its time-varying parameters with tvp_fun_mpc(t_now); a call
\* that returns advances the clock by t_step.  The solver finds a plan satisfying the
\* registered constraints and make_step returns its first input, or the
\* solver fails (no such plan, or no convergence); a failure either raises
\* out of make_step or is recorded in the solver status only, with the first
\* input of the last iterate returned.  run_simulation reads no status.
Solve ==
    /\ pc = "solve"
    /\ solve_x' = x0
    /\ mpc_x0' = x0
    /\ \/ /\ tvp_set /\ TvpFunRaises
          /\ pc' = "error"
          /\ UNCHANGED <<u0, cons_val, failed, nSolve, t_now, tvp>>
       \/ /\ ~(tvp_set /\ TvpFunRaises)
          /\ tvp' = IF tvp_set THEN tvp_fun_mpc(t_now) ELSE tvp
          /\ \/ \E u \in FirstInputs(x0) :
                   /\ u0' = u
                   /\ cons_val' = StageValues(x0, u)
                   /\ pc' = "simulate"
                   /\ nSolve' = nSolve + 1
                   /\ t_now' = t_now + config.Ts
                   /\ UNCHANGED failed
             \/ /\ failed' = TRUE
                /\ \/ /\ pc' = "error"
                      /\ UNCHANGED <<u0, cons_val, nSolve, t_now>>
                   \/ \E u \in Inputs :
                         /\ u0' = u
                         /\ cons_val' = StageValues(x0, u)
                         /\ pc' = "simulate"
                         /\ nSolve' = nSolve + 1
                         /\ t_now' = t_now + config.Ts
    /\ UNCHANGED <<config, nl_cons, bounds, tvp_set, sim_x0, est_x0, x0, y_next, k,
                   sim_u, nSim, nEst>>

\* y_next = self.simulator.make_step(u0): the simulator advances its own
\* state with the model's right-hand side and returns it
Simulate ==
    /\ pc = "simulate"
    /\ sim_u' = u0
    /\ sim_x0' = x_next(sim_x0, u0)
    /\ y_next' = sim_x0'
    /\ nSim' = nSim + 1
    /\ pc' = "estimate"
    /\ UNCHANGED <<config, nl_cons, bounds, tvp_set, t_now, tvp, mpc_x0, est_x0, x0, u0, k,
                   solve_x, cons_val, failed, nSolve, nEst>>

\* x0 = self.estimator.make_step(y_next): StateFeedback returns its input;
\* then the next iteration of `for k in range(self.sim_time)`
Estimate ==
    /\ pc = "estimate"
    /\ est_x0' = y_next
    /\ x0' = est_x0'
    /\ nEst' = nEst + 1
    /\ k' = k + 1
    /\ pc' = IF in_range(k + 1) THEN "solve" ELSE "done"
    /\ UNCHANGED <<config, nl_cons, bounds, tvp_set, t_now, tvp, mpc_x0, sim_x0, u0, y_next,
                   solve_x, sim_u, cons_val, failed, nSolve, nSim>>

Init ==
    /\ config \in Configs
    /\ pc = "new"
    /\ nl_cons = << >>
    /\ bounds = None
    /\ tvp_set = FALSE
    /\ t_now = 0
    /\ tvp = None
    /\ mpc_x0 = None /\ sim_x0 = None /\ est_x0 = None
    /\ x0 = None /\ u0 = None /\ y_next = None
    /\ k = 0
    /\ solve_x = None /\ sim_u = None
    /\ cons_val = << >>
    /\ failed = FALSE
    /\ nSolve = 0 /\ nSim = 0 /\ nEst = 0

Next == Construct \/ StartRun \/ Solve \/ Simulate \/ Estimate

Spec == Init /\ [][Next]_vars

---------------------------------------------------------------------------
(* Properties *)

GammaIsZero == config.gamma[1] = 0
GammaIsOne == config.gamma[1] = config.gamma[2]
\* gamma in (0, 1]
GammaInRange == config.gamma[1] > 0 /\ config.gamma[1] <= config.gamma[2]

IsCbf(c) == c.name = "cbf_constraint"
Running == pc \in {"solve", "simulate", "estimate", "done", "error"}
\* x is clear of every configured inflated obstacle disk
Clear(x) == x = None \/ \A i \in DOMAIN config.obs : PGeq0(h(x, config.obs[i]))

\* the hypotheses of C1
SafeStartCbf ==
    /\ config.program = "mpc_cbf"
    /\ config.obstacles_on
    /\ config.controller # "MPC-DC"
    /\ Len(config.obs) >= 1
    /\ GammaInRange
    /\ Clear(config.x0)
    /\ ~failed

\* C1: in MPC-CBF mode with gamma in (0,1] and at least one obstacle, from an
\* initial state with h >= 0 for every obstacle and with no failed solve,
\* every state the closed loop produces (simulator state and output,
\* estimator output, the loop's x0) has h >= 0 for every obstacle.
C1_ForwardInvariance ==
    (SafeStartCbf /\ Running) =>
        Clear(x0) /\ Clear(y_next) /\ Clear(sim_x0) /\ Clear(est_x0)

\* a safe run of two or more cycles that moved the robot onto the rim of an
\* inflated disk
C1_Witness ==
    /\ SafeStartCbf
    /\ pc = "done"
    /\ nEst >= 2
    /\ x0 # config.x0
    /\ \E i \in DOMAIN config.obs : PSign(h(x0, config.obs[i])) = 0

\* C2: a solve that fails ends the run in the error state at that cycle; its
\* input is not simulated and no later cycle runs.
C2_FailureAborts == failed => pc = "error"

\* the start state lies inside an inflated obstacle disk of a run of
\* src/mpc_cbf.py with obstacles enabled, gamma in (0,1] and at least one cycle
InsideStart ==
    /\ config.program = "mpc_cbf"
    /\ config.obstacles_on
    /\ config.sim_time >= 1
    /\ GammaInRange
    /\ \E i \in DOMAIN config.obs : PSign(h(config.x0, config.obs[i])) < 0

\* C3: from a start inside an inflated disk the first cycle ends in an error
\* and no input reaches the simulator, under MPC-DC and MPC-CBF alike.
\* Stated for the runs in which the solver reports no failure, where the
\* first cycle can then not get past its solve.
C3_InsideStartRejected ==
    (InsideStart /\ ~failed) => (nSim = 0 /\ pc \notin {"simulate", "estimate", "done"})

\* C4: with no failed solve the run ends after exactly sim_time solves,
\* simulator steps and estimator steps; within a cycle the order is solve,
\* simulate, estimate, and the next solve starts only after the estimate.
C4_CycleOrder ==
    /\ pc = "solve" => (nSolve = k /\ nSim = k /\ nEst = k /\ k < config.sim_time)
    /\ pc = "simulate" => (nSolve = k + 1 /\ nSim = k /\ nEst = k /\ k < config.sim_time)
    /\ pc = "estimate" => (nSolve = k + 1 /\ nSim = k + 1 /\ nEst = k /\ k < config.sim_time)
    /\ pc = "done" => (nSolve = k /\ nSim = k /\ nEst = k /\ k = config.sim_time)
    /\ pc = "error" => (failed \/ TvpFunRaises)

\* a run of the longest length that ended with no failed solve
C4_Witness == pc = "done" /\ ~failed /\ config.sim_time = MaxSimTime /\ nEst = MaxSimTime

\* C5 as amended: for every obstacle with a registered CBF constraint and
\* gamma in (0,1], if h(x_k) >= 0 and the constraint expression is <= 0 at
\* (x_k, u_k), then the next state of the model has
\* h(x_k+1) >= (1-gamma)*h(x_k) >= 0.
C5_DecayBound ==
    (pc = "estimate" /\ GammaInRange) =>
        \A i \in DOMAIN nl_cons :
            (IsCbf(nl_cons[i]) /\ PGeq0(h(solve_x, nl_cons[i].obs)) /\ PLeq0(cons_val[i]))
            => /\ PGeq(PScale(config.gamma[2], h(y_next, nl_cons[i].obs)),
                       PScale(config.gamma[2] - config.gamma[1], h(solve_x, nl_cons[i].obs)))
               /\ PGeq0(PScale(config.gamma[2] - config.gamma[1], h(solve_x, nl_cons[i].obs)))
               /\ PGeq0(h(y_next, nl_cons[i].obs))

\* C5 as stated: ... then h(x_k+1) >= gamma*h(x_k) >= 0.
C5_AsStated ==
    (pc = "estimate" /\ GammaInRange) =>
        \A i \in DOMAIN nl_cons :
            (IsCbf(nl_cons[i]) /\ PGeq0(h(solve_x, nl_cons[i].obs)) /\ PLeq0(cons_val[i]))
            => /\ PGeq(PScale(config.gamma[2], h(y_next, nl_cons[i].obs)),
                       PScale(config.gamma[1], h(solve_x, nl_cons[i].obs)))
               /\ PGeq0(PScale(config.gamma[1], h(solve_x, nl_cons[i].obs)))

\* a step from a safe state that satisfies a CBF constraint while the margin
\* shrinks
C5_Witness ==
    /\ pc = "estimate" /\ GammaInRange
    /\ \E i \in DOMAIN nl_cons :
          /\ IsCbf(nl_cons[i])
          /\ PSign(h(solve_x, nl_cons[i].obs)) > 0
          /\ PLeq0(cons_val[i])
          /\ ~PGeq(h(y_next, nl_cons[i].obs), h(solve_x, nl_cons[i].obs))

\* C6: the registered lower bound is the negation of the registered upper
\* bound (v_limit, omega_limit), and every input handed to the simulator lies
\* in the closed box.
C6_InputBox ==
    /\ pc # "new" =>
          /\ bounds.upper = <<config.v_limit, config.omega_limit>>
          /\ bounds.lower = <<-bounds.upper[1], -bounds.upper[2]>>
    /\ sim_u # None =>
          /\ -config.v_limit <= sim_u[1] /\ sim_u[1] <= config.v_limit
          /\ -config.omega_limit <= sim_u[2] /\ sim_u[2] <= config.omega_limit

\* an input on the boundary of the box was simulated
C6_Witness == pc = "estimate" /\ sim_u = <<config.v_limit, -config.omega_limit>>

\* C7: with obstacles disabled the assembly registers no nonlinear constraint
\* and does not fail, whatever the control type and controller.
C7_NoObstaclesNoConstraints ==
    (~config.obstacles_on /\ pc # "new") => (pc # "ctor_error" /\ nl_cons = << >>)

\* the configuration is malformed: trajectory tracking with an unknown
\* trajectory name, or obstacles enabled with none supplied
Malformed ==
    \/ config.control_type = "traj_tracking"
       /\ config.trajectory \notin {"circular", "lemniscate"}
    \/ config.obstacles_on /\ Len(config.obs) = 0

\* C8: a malformed configuration is rejected during construction, before any
\* cycle runs.
C8_MalformedRejected == (Malformed /\ pc # "new") => pc = "ctor_error"

\* C9 as amended: the CBF constraint accepts exactly the steps with
\* h(x_k+1) >= 0, the direct clearance constraint at x_k+1, at gamma = 1;
\* at gamma = 0 it accepts exactly the steps with h(x_k+1) >= h(x_k).
C9_Boundary ==
    pc = "estimate" =>
        \A i \in DOMAIN nl_cons : IsCbf(nl_cons[i]) =>
            /\ GammaIsOne =>
                  (PLeq0(cons_val[i]) <=> PLeq0(obs_avoid(y_next, nl_cons[i].obs)))
            /\ GammaIsZero =>
                  (PLeq0(cons_val[i]) <=>
                      PGeq(h(y_next, nl_cons[i].obs), h(solve_x, nl_cons[i].obs)))

\* C9 as stated: at gamma = 0 the CBF constraint accepts exactly the steps
\* with h(x_k+1) >= 0, whatever h(x_k) is.
C9_AsStated ==
    (pc = "estimate" /\ GammaIsZero) =>
        \A i \in DOMAIN nl_cons : IsCbf(nl_cons[i]) =>
            (PLeq0(cons_val[i]) <=> PLeq0(obs_avoid(y_next, nl_cons[i].obs)))

\* at gamma = 1 a step from clear space onto the rim is accepted, and at
\* gamma = 1 a step into the disk is not
C9_Witness ==
    /\ pc = "estimate" /\ GammaIsOne
    /\ \E i \in DOMAIN nl_cons :
          /\ IsCbf(nl_cons[i])
          /\ PSign(h(solve_x, nl_cons[i].obs)) > 0
          /\ PSign(h(y_next, nl_cons[i].obs)) = 0
          /\ PLeq0(cons_val[i])

\* C10: the simulator is given the input the cycle's solve returned; the
\* estimator returns the simulator's output unchanged, and that is the state
\* the next solve is given; the first solve is given the configured x0, with
\* which controller, simulator and estimator were seeded.
C10_DataFlow ==
    /\ pc = "ready" => (mpc_x0 = config.x0 /\ sim_x0 = config.x0 /\ est_x0 = config.x0)
    /\ pc = "simulate" => solve_x = (IF k = 0 THEN config.x0 ELSE est_x0)
    /\ pc = "estimate" => (sim_u = u0 /\ y_next = x_next(solve_x, u0))
    /\ (pc \in {"solve", "simulate", "done"} /\ k > 0) =>
          (x0 = est_x0 /\ est_x0 = y_next /\ y_next = sim_x0)

\* the second solve of a run was given a state that differs from x0
C10_Witness == pc = "simulate" /\ k >= 1 /\ ~failed /\ solve_x # config.x0

\* the point of the circle at time t
CirclePoint(t) == <<config.A * cos(config.w * t), config.A * sin(config.w * t)>>

\* C11: in trajectory-tracking mode the solve of cycle k, at time k*Ts, holds
\* one set-point for every step of the prediction horizon, the trajectory
\* evaluated at that time (circular: (A cos(w t), A sin(w t)); the other
\* branch is (A cos(w t), 0) at whole quarter turns); step j of the horizon
\* does not get the point of time t + j*Ts.
C11_ReferenceHeldOverHorizon ==
    (pc = "simulate" /\ config.control_type = "traj_tracking") =>
        /\ Len(tvp) = config.T_horizon + 1
        /\ \A j \in DOMAIN tvp : tvp[j] = tvp[1]
        /\ IF config.trajectory = "circular"
           THEN tvp[1] = CirclePoint(k * config.Ts)
           ELSE tvp[1] = <<config.A * cos(config.w * k * config.Ts), 0>>
        /\ \A j \in 2..Len(tvp) :
              (config.trajectory = "circular"
               /\ (config.w * (j - 1) * config.Ts) % 4 # 0)
              => tvp[j] # CirclePoint(k * config.Ts + (j - 1) * config.Ts)

\* a later solve on the circle with a horizon of two or more steps
C11_Witness ==
    /\ pc = "simulate" /\ config.control_type = "traj_tracking"
    /\ config.trajectory = "circular"
    /\ k >= 1 /\ config.T_horizon >= 2 /\ ~failed
    /\ tvp[2] = CirclePoint(k * config.Ts)
    /\ tvp[2] # CirclePoint(0)

====
